---- MODULE Spec2Model ----
(***************************************************************************)
(* A model of the Go backend of thriftgo (generator/golang/backend.go):    *)
(* GoBackend.Generate and the stages it drives (option handling, IDL       *)
(* trimming, the streaming capability filter, the include-graph walk, the  *)
(* per-file render calls and the response builder).                        *)
(***************************************************************************)
EXTENDS Integers, Sequences, FiniteSets, TLC

\* ------------------------------------------------------------------ bounds

\* Generator parameters carried by one request.
MaxParams == 3
\* Services of an AST and Functions of a Service drawn for the filter alone.
MaxSvcs == 2
MaxFuncs == 3
MaxStem == 3
MaxPath == 4
MaxProgs == 3
MaxCalls == 2

\* ------------------------------------------------------------- data model

NoProg == 0

\* An error value: its cause and the file name the message is annotated with
\* (<<>> when the message names no file).
NilErr == [cause |-> "nil", file |-> <<>>]
MkErr(cause, file) == [cause |-> cause, file |-> file]

\* The generator parameters the backend understands, and one it rejects.
Flags == {"trim_idl", "thrift_streaming", "skip_go_gen", "with_reflection",
          "skip_empty", "keep_code_ref_name", "no_fmt"}
BadParam == "invalid"

ParamSets == {ps \in SUBSET (Flags \cup {BadParam}) : Cardinality(ps) <= MaxParams}

\* CodeUtils.Features() after the parameters in ps were applied.
FeaturesOf(ps) ==
    [TrimIDL         |-> "trim_idl" \in ps,
     ThriftStreaming |-> "thrift_streaming" \in ps,
     SkipGoGen       |-> "skip_go_gen" \in ps,
     WithReflection  |-> "with_reflection" \in ps,
     SkipEmpty       |-> "skip_empty" \in ps,
     KeepCodeRefName |-> "keep_code_ref_name" \in ps,
     NoFmt           |-> "no_fmt" \in ps]

\* NewCodeUtils followed by HandleOptions: the parameters are applied one by
\* one and the first rejected one stops the loop, so the utilities hold the
\* features of the parameters applied before it.
HandleOptions(ps, applied) ==
    IF BadParam \in ps
    THEN [utils |-> [features |-> FeaturesOf(applied)], err |-> MkErr("config", <<>>)]
    ELSE [utils |-> [features |-> FeaturesOf(ps)], err |-> NilErr]

AppliedChoices(ps) ==
    IF BadParam \in ps THEN SUBSET (ps \ {BadParam}) ELSE {ps}

\* The kinds of declaration a Scope is partitioned by.
PartKinds == {"constants", "typedefs", "enums", "structs", "unions",
              "exceptions", "services", "synthesized"}

FuncKinds == {"unary", "streaming", "unparsable"}

Func(name, kind) == [Name |-> name, Kind |-> kind]
Svc(name, kinds) ==
    [Name |-> name, Functions |-> [i \in 1..Len(kinds) |-> Func(i, kinds[i])]]

\* parser.Thrift: one parsed file.  Decls holds the kinds (services apart)
\* the file declares something of; Dead says its structs are referenced by
\* no service function; Ref is what reference scope the file gives rise to.
Prog(stem, incs, svcs, decls, dead, ref) ==
    [Filename |-> stem, Includes |-> incs, Services |-> svcs,
     Decls |-> decls, Dead |-> dead, Ref |-> ref]

\* -------------------------------------------------------- request inputs

Single ==
    1 :> Prog(<<"a">>, <<>>, <<Svc(1, <<"unary", "streaming", "unparsable">>)>>,
              {"structs"}, TRUE, "some")

Diamond ==
    (1 :> Prog(<<"r">>, <<2, 3>>, <<Svc(1, <<"streaming", "unary">>)>>, {}, FALSE, "some"))
    @@ (2 :> Prog(<<"a">>, <<4>>, <<Svc(1, <<"streaming">>)>>, {"enums"}, FALSE, "some"))
    @@ (3 :> Prog(<<"b">>, <<4>>, <<>>, {}, FALSE, "nil"))
    @@ (4 :> Prog(<<"c">>, <<>>, <<>>, {"structs"}, TRUE, "empty"))

\* The shared file is also included by the root itself, after its parents
\* and in the other include order, so it is met at two depths.
DiamondDeep ==
    (1 :> Prog(<<"r">>, <<3, 2, 4>>, <<>>, {"constants"}, FALSE, "empty"))
    @@ (2 :> Prog(<<"a">>, <<4>>, <<Svc(1, <<"unary">>)>>, {}, FALSE, "some"))
    @@ (3 :> Prog(<<"b">>, <<4>>, <<>>, {"structs"}, TRUE, "some"))
    @@ (4 :> Prog(<<"c">>, <<>>, <<Svc(1, <<"unary", "streaming">>)>>, {}, FALSE, "nil"))

\* Two distinct parses that carry the same file name.
Twins ==
    (1 :> Prog(<<"r">>, <<2, 3>>, <<>>, {"typedefs"}, FALSE, "some"))
    @@ (2 :> Prog(<<"t">>, <<>>, <<>>, {"structs"}, FALSE, "empty"))
    @@ (3 :> Prog(<<"t">>, <<>>, <<Svc(1, <<"unary">>)>>, {}, FALSE, "empty"))

ASTs == {Single, Diamond, DiamondDeep, Twins}

Requests ==
    [AST : ASTs, Recursive : BOOLEAN, GeneratorParameters : ParamSets]

\* ------------------------------------------------------- pure functions

InSeq(x, s) == \E i \in DOMAIN s : s[i] = x

\* streaming.ParseStreaming: the classification of a Function, or an error.
ParseStreaming(f) ==
    [err |-> f.Kind = "unparsable", IsStreaming |-> f.Kind = "streaming"]

\* A warning diagnostic naming a Service and a Function.
Warning(why, svc, f) == [level |-> "warn", msg |-> why, svc |-> svc, fn |-> f]
Note(level, msg) == [level |-> level, msg |-> msg, svc |-> 0, fn |-> 0]

\* A filter loop that warns of a function it cannot classify and keeps it.
RECURSIVE FilterFunctions_KeepsUnparsable(_, _, _)
FilterFunctions_KeepsUnparsable(svc, fs, acc) ==
    IF fs = <<>> THEN acc
    ELSE LET f == Head(fs)
             st == ParseStreaming(f)
         IN  IF st.err
             THEN FilterFunctions_KeepsUnparsable(svc, Tail(fs),
                      [acc EXCEPT !.warns = Append(@, Warning("failed to parse streaming", svc.Name, f.Name)),
                                  !.functions = Append(@, f)])
             ELSE IF st.IsStreaming
             THEN FilterFunctions_KeepsUnparsable(svc, Tail(fs),
                      [acc EXCEPT !.warns = Append(@, Warning("skip streaming function", svc.Name, f.Name))])
             ELSE FilterFunctions_KeepsUnparsable(svc, Tail(fs),
                      [acc EXCEPT !.functions = Append(@, f)])

\* The loop body of removeStreamingFunctions over one Service's Functions:
\* the Functions kept and the warnings logged, in source order.
RECURSIVE FilterFunctions(_, _, _)
FilterFunctions(svc, fs, acc) ==
    IF fs = <<>> THEN acc
    ELSE LET f == Head(fs)
             st == ParseStreaming(f)
         IN  IF st.err
             THEN FilterFunctions(svc, Tail(fs),
                      [acc EXCEPT !.warns = Append(@, Warning("failed to parse streaming", svc.Name, f.Name))])
             ELSE IF st.IsStreaming
             THEN FilterFunctions(svc, Tail(fs),
                      [acc EXCEPT !.warns = Append(@, Warning("skip streaming function", svc.Name, f.Name))])
             ELSE FilterFunctions(svc, Tail(fs),
                      [acc EXCEPT !.functions = Append(@, f)])

FilterService(svc) == FilterFunctions(svc, svc.Functions, [functions |-> <<>>, warns |-> <<>>])

RECURSIVE Concat(_)
Concat(ss) == IF ss = <<>> THEN <<>> ELSE Head(ss) \o Concat(Tail(ss))

\* A filter that also drops the Services it leaves without Functions.
removeStreamingFunctions_DropsEmpty(prog) ==
    LET kept == [i \in DOMAIN prog.Services |->
                   [prog.Services[i] EXCEPT !.Functions = FilterService(prog.Services[i]).functions]]
        HasFunctions(svc) == svc.Functions # <<>>
    IN  [ast   |-> [prog EXCEPT !.Services = SelectSeq(kept, HasFunctions)],
         warns |-> Concat([i \in DOMAIN prog.Services |-> FilterService(prog.Services[i]).warns])]

\* removeStreamingFunctions(ast): every Service of this one file keeps the
\* Functions the loop kept; warns are the diagnostics logged on the way.
removeStreamingFunctions(prog) ==
    [ast   |-> [prog EXCEPT !.Services =
                   [i \in DOMAIN prog.Services |->
                       [prog.Services[i] EXCEPT !.Functions = FilterService(prog.Services[i]).functions]]],
     warns |-> Concat([i \in DOMAIN prog.Services |-> FilterService(prog.Services[i]).warns])]

\* trim.TrimAST on the whole include graph: the structs no service function
\* reaches are deleted from their owning file.
DeadProgs(heap) == {p \in DOMAIN heap : heap[p].Dead /\ "structs" \in heap[p].Decls}
TrimIn(heap, ps) ==
    [p \in DOMAIN heap |->
        IF p \in ps THEN [heap[p] EXCEPT !.Decls = @ \ {"structs"}] ELSE heap[p]]
TrimAST(heap) == TrimIn(heap, DeadProgs(heap))

\* parser.Thrift.DepthFirstSearch: the files reachable from the root in
\* depth-first pre-order, each delivered once.
RECURSIVE Visit(_, _, _)
RECURSIVE VisitAll(_, _, _)
Visit(heap, p, acc) ==
    IF InSeq(p, acc) THEN acc ELSE VisitAll(heap, heap[p].Includes, Append(acc, p))
VisitAll(heap, incs, acc) ==
    IF incs = <<>> THEN acc ELSE VisitAll(heap, Tail(incs), Visit(heap, Head(incs), acc))
DepthFirstSearch(heap, root) == Visit(heap, root, <<>>)

\* File names are sequences of characters.
DotGo == <<".", "g", "o">>

\* A TrimSuffix that trims nothing.
TrimSuffix_Keeps(s, suffix) == s

\* strings.TrimSuffix.
TrimSuffix(s, suffix) ==
    IF Len(s) >= Len(suffix) /\ SubSeq(s, Len(s) - Len(suffix) + 1, Len(s)) = suffix
    THEN SubSeq(s, 1, Len(s) - Len(suffix))
    ELSE s

RefSuffix == <<"-", "r", "e", "f">>
ReflectionSuffix == <<"-", "r", "e", "f", "l", "e", "c", "t", "i", "o", "n">>
ReflectionRefSuffix == ReflectionSuffix \o RefSuffix

ToRefFilename(keepName, filename) ==
    IF keepName THEN filename
    ELSE TrimSuffix(filename, DotGo) \o RefSuffix \o DotGo

ToReflectionFilename(filename) ==
    TrimSuffix(filename, DotGo) \o ReflectionSuffix \o DotGo

ToReflectionRefFilename(keepName, filename) ==
    IF keepName THEN ToReflectionFilename(filename)
    ELSE TrimSuffix(filename, DotGo) \o ReflectionRefSuffix \o DotGo

\* CodeUtils.CombineOutputPath, CodeUtils.GetFilename and filepath.Join: the
\* main file of a parse is <output path>/<its file name>.go.
OutputPath == <<"o">>
MainFilename(prog) == OutputPath \o <<"/">> \o prog.Filename \o DotGo

\* A Scope: the file it was built from, whether it is the local or the
\* reference scope ("nil": no scope), the length of each partition, and the
\* service functions it carries.
NilScope ==
    [prog |-> NoProg, kind |-> "nil", parts |-> [k \in PartKinds |-> 0], funcs |-> {}]

FuncsOf(prog) ==
    UNION {{[svc |-> prog.Services[i].Name, fn |-> prog.Services[i].Functions[j].Name,
             streaming |-> ParseStreaming(prog.Services[i].Functions[j]).IsStreaming] :
               j \in DOMAIN prog.Services[i].Functions} : i \in DOMAIN prog.Services}

\* BuildRefScope: the local scope holds the file's own declarations by kind
\* (and what is synthesized for its service functions), the reference scope
\* the external declarations it uses; or it fails to resolve a reference.
LocalScopeOf(p, prog) ==
    [prog  |-> p, kind |-> "local",
     parts |-> [k \in PartKinds |->
                  IF k = "services" THEN Len(prog.Services)
                  ELSE IF k = "synthesized" THEN Cardinality(FuncsOf(prog))
                  ELSE IF k \in prog.Decls THEN 1 ELSE 0],
     funcs |-> FuncsOf(prog)]

RefScopeOf(p, prog) ==
    IF prog.Ref = "nil" THEN NilScope
    ELSE [prog  |-> p, kind |-> "ref",
          parts |-> [k \in PartKinds |-> IF k = "structs" /\ prog.Ref = "some" THEN 1 ELSE 0],
          funcs |-> {}]

BuildRefScope(p, prog, out) ==
    IF out = "err"
    THEN [localScope |-> NilScope, refScope |-> NilScope, err |-> MkErr("resolve", <<>>)]
    ELSE [localScope |-> LocalScopeOf(p, prog), refScope |-> RefScopeOf(p, prog), err |-> NilErr]

\* An emptiness test that forgets the synthesized declarations.
IsEmpty_NoSynthesized(s) ==
    /\ s.parts["constants"] = 0
    /\ s.parts["typedefs"] = 0
    /\ s.parts["enums"] = 0
    /\ s.parts["structs"] = 0
    /\ s.parts["unions"] = 0
    /\ s.parts["exceptions"] = 0
    /\ s.parts["services"] = 0

IsEmpty(s) ==
    IF s.parts["constants"] = 0 /\
       s.parts["typedefs"] = 0 /\
       s.parts["enums"] = 0 /\
       s.parts["structs"] = 0 /\
       s.parts["unions"] = 0 /\
       s.parts["exceptions"] = 0 /\
       s.parts["services"] = 0 /\
       s.parts["synthesized"] = 0
    THEN TRUE
    ELSE FALSE

\* What one ExecuteTemplate call writes: the template set, the template run
\* in it and the data it is run on (a Scope, or a Scope's import list).
Chunk(tpl, define, scope) == [tpl |-> tpl, define |-> define, data |-> scope]

\* Scope.ResolveImports: the import list of a scope.
ResolveImports(scope) == [scope EXCEPT !.kind = "imports", !.funcs = {}]

\* plugin.Generated: a full file has a Name, a fragment an InsertionPoint.
Generated(name, point, content) ==
    [Name |-> name, InsertionPoint |-> point, Content |-> content]

\* What the environment makes of one render call that is not skipped:
\* all is rendered, the template fails on the scope, the imports do not
\* resolve, or the template fails on the import list.
Outcomes == {"ok", "exec", "imports", "importsExec"}

\* A Reset that leaves what the buffer held.
Reset_Keeps(w) == w

\* bytes.Buffer.Reset and template.ExecuteTemplate writing into a buffer.
Reset(w) == <<>>
ExecuteTemplate(w, tpl, define, data) == w \o <<Chunk(tpl, define, data)>>

\* A return that leaves the buffer checked out.
Deferred_Leaks(ops) == ops

\* defer poolBuffer.Put(w): the buffer goes back at every return that follows Get.
Deferred(ops) == Append(ops, "put")

\* renderByTemplate: the contents of the response after the call, the error
\* returned, the buffer as it is put back, whether a buffer was taken, and what
\* was done with the buffer; out names where, if anywhere, the call fails.
renderByTemplate(contents, features, scope, executeTpl, filename, w, out) ==
    IF scope.kind = "nil"
    THEN [Contents |-> contents, err |-> NilErr, w |-> w, took |-> FALSE, ops |-> <<>>]
    ELSE IF features.SkipEmpty /\ IsEmpty(scope)
    THEN [Contents |-> contents, err |-> NilErr, w |-> w, took |-> FALSE, ops |-> <<>>]
    ELSE IF out = "exec"
    THEN [Contents |-> contents, err |-> MkErr("template", filename),
          w |-> Reset(w), took |-> TRUE, ops |-> Deferred(<<"get", "reset", "exec">>)]
    ELSE
      LET w1 == ExecuteTemplate(Reset(w), executeTpl, executeTpl, scope)
          c1 == Append(contents, Generated(filename, "", w1))
          w2 == ExecuteTemplate(Reset(w1), executeTpl, "Imports", ResolveImports(scope))
      IN  IF out = "imports"
          THEN [Contents |-> c1, err |-> MkErr("imports", <<>>), w |-> w1, took |-> TRUE,
                ops |-> Deferred(<<"get", "reset", "exec">>)]
          ELSE IF out = "importsExec"
          THEN [Contents |-> c1, err |-> MkErr("template", filename),
                w |-> Reset(w1), took |-> TRUE,
                ops |-> Deferred(<<"get", "reset", "exec", "reset", "exec">>)]
          ELSE [Contents |-> Append(c1, Generated(<<>>, "imports", w2)),
                err |-> NilErr, w |-> w2, took |-> TRUE,
                ops |-> Deferred(<<"get", "reset", "exec", "reset", "exec">>)]

\* A response builder that hands back what was collected, error or not.
buildResponse_KeepsContents(e, r) ==
    [isError |-> e # NilErr, Error |-> e, Contents |-> r.Contents]

\* buildResponse: an error response carries the message alone.
buildResponse(e, r) ==
    IF e # NilErr
    THEN [isError |-> TRUE, Error |-> e, Contents |-> <<>>]
    ELSE [isError |-> FALSE, Error |-> NilErr, Contents |-> r.Contents]

\* ---------------------------------------------------------------- state

VARIABLES
    pc,         \* where Generate stands
    err,        \* GoBackend.err
    utils,      \* GoBackend.utils
    tpl,        \* GoBackend.tpl, refTpl, reflectionTpl, reflectionRefTpl
    req,        \* GoBackend.req
    res,        \* GoBackend.res
    log,        \* what was sent to GoBackend.log
    ast,        \* the files of req.AST as they are now
    processed,  \* executeTemplates: the files already met
    trees,      \* executeTemplates: the files the channel still delivers
    cur,        \* renderOneFile: the file being rendered
    step,       \* renderOneFile: the render call that comes next
    scopes,     \* renderOneFile: localScope and refScope
    poolBuf,    \* the buffer held by poolBuffer
    response,   \* what Generate returned
    trace,      \* the stages run so far, in order
    checkedOut, \* poolBuffer: buffers taken with Get and not yet Put back
    bufOps,     \* renderByTemplate: what the last call did with its buffer
    post,       \* PostProcess: the last call and what it returned
    trimmer,    \* Trimmer: marks, the preProcess calls in progress, the last result
    calls       \* Generate calls made on this backend

vars == <<pc, err, utils, tpl, req, res, log, ast, processed, trees, cur, step,
          scopes, poolBuf, response, trace, checkedOut, bufOps, post, trimmer, calls>>

Root == 1

NilUtils == [isNil |-> TRUE, features |-> FeaturesOf({})]
NilTpl == [tpl |-> "nil", refTpl |-> "nil", reflectionTpl |-> "nil", reflectionRefTpl |-> "nil"]
NilReq == [AST |-> <<>>, Recursive |-> FALSE, GeneratorParameters |-> {}]
NewResponse == [Contents |-> <<>>]
NoScopes == [localScope |-> NilScope, refScope |-> NilScope]
NoResponse == [isError |-> FALSE, Error |-> NilErr, Contents |-> <<>>]

Event(ev, p, arg, out) == [ev |-> ev, prog |-> p, arg |-> arg, out |-> out]

\* Nothing has been post-processed; no Trimmer has been made.
NoPost == [called |-> FALSE, path |-> <<>>, content |-> <<>>, out |-> <<>>, err |-> NilErr,
           invoked |-> FALSE]
NoTrimmer == [marks |-> {}, stack |-> <<>>, ret |-> FALSE, done |-> FALSE]

\* What lies outside one Generate call starts at rest.
AtRest ==
    /\ checkedOut = 0
    /\ bufOps = <<>>
    /\ post = NoPost
    /\ trimmer = NoTrimmer

\* The zero value of GoBackend.
Init ==
    /\ pc = "idle"
    /\ err = NilErr
    /\ utils = NilUtils
    /\ tpl = NilTpl
    /\ req = NilReq
    /\ res = NewResponse
    /\ log = <<>>
    /\ ast = <<>>
    /\ processed = {}
    /\ trees = <<>>
    /\ cur = NoProg
    /\ step = 0
    /\ scopes = NoScopes
    /\ poolBuf = <<>>
    /\ response = NoResponse
    /\ trace = <<>>
    /\ AtRest
    /\ calls = 0

\* prepareUtilities.
prepareUtilities(e, u, ps, applied) ==
    IF e # NilErr
    THEN [err |-> e, utils |-> u, ran |-> FALSE]
    ELSE LET h == HandleOptions(ps, applied)
         IN  [err |-> h.err, utils |-> [isNil |-> FALSE, features |-> h.utils.features],
              ran |-> TRUE]

\* Generate, up to the call of prepareUtilities.
Generate(r, applied) ==
    /\ pc = "idle"
    /\ req' = r
    /\ res' = NewResponse
    /\ log' = <<>>
    /\ ast' = r.AST
    /\ LET u == prepareUtilities(err, utils, r.GeneratorParameters, applied)
       IN  /\ err' = u.err
           /\ utils' = u.utils
           /\ trace' = IF u.ran
                       THEN <<Event("options", NoProg, "", IF u.err = NilErr THEN "ok" ELSE "err")>>
                       ELSE <<>>
    /\ pc' = "trim"
    /\ calls' = calls + 1
    /\ UNCHANGED <<checkedOut, bufOps, post, trimmer>>
    /\ UNCHANGED <<tpl, processed, trees, cur, step, scopes, poolBuf, response>>

Respond(e) ==
    /\ response' = buildResponse(e, res)
    /\ pc' = "done"

\* Generate: trimming is not asked for.
TrimSkip ==
    /\ pc = "trim"
    /\ ~utils.features.TrimIDL
    /\ pc' = "filter"
    /\ UNCHANGED <<checkedOut, bufOps, post, trimmer, calls>>
    /\ UNCHANGED <<err, utils, tpl, req, res, log, ast, processed, trees, cur, step,
                   scopes, poolBuf, response, trace>>

\* Generate: trim.TrimAST succeeds and its statistics are logged.
TrimOk ==
    /\ pc = "trim"
    /\ utils.features.TrimIDL
    /\ ast' = TrimAST(ast)
    /\ log' = log \o <<Note("warn", "You Are Using IDL Trimmer"),
                       Note("warn", "removed unused structures"),
                       Note("warn", "structs and fields trimmed")>>
    /\ trace' = Append(trace, Event("trim", NoProg, "", "ok"))
    /\ pc' = "filter"
    /\ UNCHANGED <<checkedOut, bufOps, post, trimmer, calls>>
    /\ UNCHANGED <<err, utils, tpl, req, res, processed, trees, cur, step, scopes,
                   poolBuf, response>>

\* A Generate that logs the trim error and goes on to the filter.
TrimFail_GoesOn(pruned) ==
    /\ pc = "trim"
    /\ utils.features.TrimIDL
    /\ ast' = TrimIn(ast, pruned)
    /\ log' = log \o <<Note("warn", "You Are Using IDL Trimmer"), Note("warn", "trim error")>>
    /\ err' = MkErr("trim", <<>>)
    /\ trace' = Append(trace, Event("trim", NoProg, "", "err"))
    /\ pc' = "filter"
    /\ UNCHANGED <<checkedOut, bufOps, post, trimmer, calls>>
    /\ UNCHANGED <<utils, tpl, req, res, processed, trees, cur, step, scopes, poolBuf,
                   response>>

\* Generate: trim.TrimAST fails, having pruned some of the files already;
\* the error is recorded and the response built at once.
TrimFail(pruned) ==
    /\ pc = "trim"
    /\ utils.features.TrimIDL
    /\ ast' = TrimIn(ast, pruned)
    /\ log' = log \o <<Note("warn", "You Are Using IDL Trimmer"), Note("warn", "trim error")>>
    /\ err' = MkErr("trim", <<>>)
    /\ trace' = Append(trace, Event("trim", NoProg, "", "err"))
    /\ Respond(MkErr("trim", <<>>))
    /\ UNCHANGED <<checkedOut, bufOps, post, trimmer, calls>>
    /\ UNCHANGED <<utils, tpl, req, res, processed, trees, cur, step, scopes, poolBuf>>

\* Generate: the capability filter, applied to req.GetAST().
Filter ==
    /\ pc = "filter"
    /\ IF ~utils.features.ThriftStreaming
       THEN LET f == removeStreamingFunctions(ast[Root])
            IN  /\ ast' = [ast EXCEPT ![Root] = f.ast]
                /\ log' = log \o f.warns
                /\ trace' = Append(trace, Event("filter", Root, "", "ok"))
       ELSE UNCHANGED <<ast, log, trace>>
    /\ pc' = "gen"
    /\ UNCHANGED <<checkedOut, bufOps, post, trimmer, calls>>
    /\ UNCHANGED <<err, utils, tpl, req, res, processed, trees, cur, step, scopes,
                   poolBuf, response>>

\* Generate: code generation is skipped.
SkipGen ==
    /\ pc = "gen"
    /\ utils.features.SkipGoGen
    /\ log' = Append(log, Note("warn", "You are skipping Thriftgo Go Code Generating"))
    /\ Respond(err)
    /\ UNCHANGED <<checkedOut, bufOps, post, trimmer, calls>>
    /\ UNCHANGED <<err, utils, tpl, req, res, ast, processed, trees, cur, step, scopes,
                   poolBuf, trace>>

\* prepareTemplates.
prepareTemplates(e, t) ==
    IF e # NilErr THEN t
    ELSE [tpl |-> "thrift", refTpl |-> "thrift-ref",
          reflectionTpl |-> "thrift-reflection",
          reflectionRefTpl |-> "thrift-reflection-util"]

\* executeTemplates: the channel the render loop ranges over.
Trees(r, heap) ==
    IF r.Recursive THEN DepthFirstSearch(heap, Root) ELSE <<Root>>

\* Generate: prepareTemplates, fillRequisitions and executeTemplates up to
\* its loop; each returns at once when an error is recorded.
StartGen ==
    /\ pc = "gen"
    /\ ~utils.features.SkipGoGen
    /\ tpl' = prepareTemplates(err, tpl)
    /\ IF err # NilErr
       THEN /\ Respond(err)
            /\ UNCHANGED <<processed, trees, trace>>
       ELSE /\ processed' = {}
            /\ trees' = Trees(req, ast)
            /\ trace' = Append(trace, Event("templates", NoProg, "", "ok"))
            /\ pc' = "loop"
            /\ UNCHANGED response
    /\ UNCHANGED <<checkedOut, bufOps, post, trimmer, calls>>
    /\ UNCHANGED <<err, utils, req, res, log, ast, cur, step, scopes, poolBuf>>

\* A loop that tells files apart by their file name.
ProcessedByName(done, p) == \E q \in done : ast[q].Filename = ast[p].Filename

\* executeTemplates: whether the loop has met this file before.
Processed(done, p) == p \in done

\* executeTemplates: the loop takes the next file from the channel.
Receive ==
    /\ pc = "loop"
    /\ trees # <<>>
    /\ trees' = Tail(trees)
    /\ LET p == Head(trees)
       IN  IF Processed(processed, p)
           THEN UNCHANGED <<processed, log, cur, step, trace, pc>>
           ELSE /\ processed' = processed \cup {p}
                /\ log' = Append(log, Note("info", "Processing"))
                /\ cur' = p
                /\ step' = 0
                /\ trace' = Append(trace, Event("process", p, "", "ok"))
                /\ pc' = "file"
    /\ UNCHANGED <<checkedOut, bufOps, post, trimmer, calls>>
    /\ UNCHANGED <<err, utils, tpl, req, res, ast, scopes, poolBuf, response>>

\* executeTemplates: the channel is closed and drained; Generate returns.
Drained ==
    /\ pc = "loop"
    /\ trees = <<>>
    /\ Respond(err)
    /\ UNCHANGED <<checkedOut, bufOps, post, trimmer, calls>>
    /\ UNCHANGED <<err, utils, tpl, req, res, log, ast, processed, trees, cur, step,
                   scopes, poolBuf, trace>>

\* A renderOneFile that filters the file it is given before building its
\* scopes.
BuildScope_FiltersFirst(out) ==
    /\ pc = "file"
    /\ step = 0
    /\ LET f == removeStreamingFunctions(ast[cur])
           b == BuildRefScope(cur, f.ast, out)
       IN  /\ ast' = [ast EXCEPT ![cur] = f.ast]
           /\ trace' = trace \o <<Event("filter", cur, "", "ok"), Event("scope", cur, "", out)>>
           /\ IF b.err # NilErr
              THEN /\ err' = b.err
                   /\ Respond(b.err)
                   /\ UNCHANGED <<scopes, step>>
              ELSE /\ scopes' = [localScope |-> b.localScope, refScope |-> b.refScope]
                   /\ step' = 1
                   /\ UNCHANGED <<err, pc, response>>
    /\ UNCHANGED <<checkedOut, bufOps, post, trimmer, calls>>
    /\ UNCHANGED <<utils, tpl, req, res, log, processed, trees, cur, poolBuf>>

\* renderOneFile: BuildRefScope.
BuildScope(out) ==
    /\ pc = "file"
    /\ step = 0
    /\ LET b == BuildRefScope(cur, ast[cur], out)
       IN  /\ trace' = Append(trace, Event("scope", cur, "", out))
           /\ IF b.err # NilErr
              THEN /\ err' = b.err
                   /\ Respond(b.err)
                   /\ UNCHANGED <<scopes, step>>
              ELSE /\ scopes' = [localScope |-> b.localScope, refScope |-> b.refScope]
                   /\ step' = 1
                   /\ UNCHANGED <<err, pc, response>>
    /\ UNCHANGED <<checkedOut, bufOps, post, trimmer, calls>>
    /\ UNCHANGED <<utils, tpl, req, res, log, ast, processed, trees, cur, poolBuf>>

\* A renderOneFile that renders the reference file before the main file.
RenderPlan_RefFirst(features, sc, t, filename) ==
    LET keepName == features.KeepCodeRefName
    IN  <<[kind |-> "ref", scope |-> sc.refScope, tpl |-> t.refTpl,
           name |-> ToRefFilename(keepName, filename)],
          [kind |-> "main", scope |-> sc.localScope, tpl |-> t.tpl, name |-> filename]>>
        \o (IF features.WithReflection
            THEN <<[kind |-> "reflection-ref", scope |-> sc.refScope,
                    tpl |-> t.reflectionRefTpl,
                    name |-> ToReflectionRefFilename(keepName, filename)],
                   [kind |-> "reflection", scope |-> sc.localScope,
                    tpl |-> t.reflectionTpl, name |-> ToReflectionFilename(filename)]>>
            ELSE <<>>)

\* renderOneFile: its render calls in order, each with the scope, the
\* template and the file name it is given.
RenderPlan(features, sc, t, filename) ==
    LET keepName == features.KeepCodeRefName
    IN  <<[kind |-> "main", scope |-> sc.localScope, tpl |-> t.tpl, name |-> filename],
          [kind |-> "ref", scope |-> sc.refScope, tpl |-> t.refTpl,
           name |-> ToRefFilename(keepName, filename)]>>
        \o (IF features.WithReflection
            THEN <<[kind |-> "reflection-ref", scope |-> sc.refScope,
                    tpl |-> t.reflectionRefTpl,
                    name |-> ToReflectionRefFilename(keepName, filename)],
                   [kind |-> "reflection", scope |-> sc.localScope,
                    tpl |-> t.reflectionTpl, name |-> ToReflectionFilename(filename)]>>
            ELSE <<>>)

\* How often a render call did op with its buffer.
CountOp(ops, op) == Cardinality({i \in 1..Len(ops) : ops[i] = op})

\* renderOneFile: one call of renderByTemplate; its error ends the loop of
\* executeTemplates and Generate returns.
Render(out) ==
    /\ pc = "file"
    /\ step >= 1
    /\ LET plan == RenderPlan(utils.features, scopes, tpl, MainFilename(ast[cur]))
           call == plan[step]
           r == renderByTemplate(res.Contents, utils.features, call.scope, call.tpl,
                                 call.name, poolBuf, out)
       IN  /\ res' = [res EXCEPT !.Contents = r.Contents]
           /\ poolBuf' = r.w
           /\ bufOps' = r.ops
           /\ checkedOut' = checkedOut + CountOp(r.ops, "get") - CountOp(r.ops, "put")
           /\ trace' = Append(trace, Event("render", cur, call.kind,
                                           IF r.took THEN out ELSE "skipped"))
           /\ err' = r.err
           /\ IF r.err # NilErr
              THEN /\ Respond(r.err)
                   /\ UNCHANGED step
              ELSE /\ UNCHANGED response
                   /\ IF step < Len(plan)
                      THEN step' = step + 1 /\ pc' = "file"
                      ELSE step' = 0 /\ pc' = "loop"
    /\ UNCHANGED <<post, trimmer, calls>>
    /\ UNCHANGED <<utils, tpl, req, log, ast, processed, trees, cur, scopes>>

Next ==
    \/ \E r \in Requests : \E applied \in AppliedChoices(r.GeneratorParameters) :
          Generate(r, applied)
    \/ TrimSkip
    \/ TrimOk
    \/ \E pruned \in SUBSET DeadProgs(ast) : TrimFail(pruned)
    \/ Filter
    \/ SkipGen
    \/ StartGen
    \/ Receive
    \/ Drained
    \/ \E out \in {"ok", "err"} : BuildScope(out)
    \/ \E out \in Outcomes : Render(out)

Spec == Init /\ [][Next]_vars

\* ------------------------------------------- the capability filter alone

\* At most MaxSvcs services that hold at most MaxFuncs functions together.
KindSeqs == UNION {[1..n -> FuncKinds] : n \in 0..MaxFuncs}
RECURSIVE SumLen(_)
SumLen(ss) == IF ss = <<>> THEN 0 ELSE Len(Head(ss)) + SumLen(Tail(ss))
ServiceLists ==
    UNION {{[i \in 1..n |-> Svc(i, ks[i])] :
               ks \in {k \in [1..n -> KindSeqs] : SumLen(k) <= MaxFuncs}} : n \in 0..MaxSvcs}

\* Generate has reached the capability filter on a one-file request.
InitFilter ==
    /\ pc = "filter"
    /\ err = NilErr
    /\ \E streaming \in BOOLEAN :
          utils = [isNil |-> FALSE,
                   features |-> FeaturesOf(IF streaming THEN {"thrift_streaming"} ELSE {})]
    /\ tpl = NilTpl
    /\ \E svcs \in ServiceLists :
          /\ ast = (Root :> Prog(<<"a">>, <<>>, svcs, {}, FALSE, "nil"))
          /\ req = [AST |-> ast, Recursive |-> FALSE,
                    GeneratorParameters |-> IF utils.features.ThriftStreaming
                                            THEN {"thrift_streaming"} ELSE {}]
    /\ res = NewResponse
    /\ log = <<>>
    /\ processed = {}
    /\ trees = <<>>
    /\ cur = NoProg
    /\ step = 0
    /\ scopes = NoScopes
    /\ AtRest
    /\ calls = 1
    /\ poolBuf = <<>>
    /\ response = NoResponse
    /\ trace = <<Event("options", NoProg, "", "ok")>>

SpecFilter == InitFilter /\ [][Filter]_vars

\* ------------------------------------------------- the render calls alone

ScopeShapes ==
    {NilScope} \cup
    {[prog |-> Root, kind |-> "local",
      parts |-> [k \in PartKinds |-> IF k \in ks THEN 1 ELSE 0], funcs |-> {}] :
        ks \in SUBSET PartKinds}

\* renderOneFile has built the scopes of a one-file request and comes to its
\* render calls.
InitRender ==
    /\ pc = "file"
    /\ step = 1
    /\ cur = Root
    /\ err = NilErr
    /\ \E ps \in SUBSET {"skip_empty", "with_reflection"} :
          /\ utils = [isNil |-> FALSE, features |-> FeaturesOf(ps)]
          /\ req = [AST |-> Single, Recursive |-> FALSE, GeneratorParameters |-> ps]
    /\ tpl = prepareTemplates(NilErr, NilTpl)
    /\ ast = Single
    /\ \E s \in ScopeShapes : scopes = [localScope |-> s, refScope |-> NilScope]
    /\ res = NewResponse
    /\ log = <<Note("info", "Processing")>>
    /\ processed = {Root}
    /\ trees = <<>>
    /\ poolBuf = <<>>
    /\ response = NoResponse
    /\ AtRest
    /\ calls = 1
    /\ trace = <<Event("options", NoProg, "", "ok"), Event("templates", NoProg, "", "ok"),
                 Event("process", Root, "", "ok"), Event("scope", Root, "", "ok")>>

NextRender ==
    \/ \E out \in Outcomes : Render(out)
    \/ Drained

SpecRender == InitRender /\ [][NextRender]_vars

\* ------------------------------------------------------ reading a trace

IsErrorEvent(e) ==
    \/ e.ev \in {"options", "trim", "scope"} /\ e.out = "err"
    \/ e.ev = "render" /\ e.out \in {"exec", "imports", "importsExec"}

ErrorRecorded == \E i \in DOMAIN trace : IsErrorEvent(trace[i])

FirstError == CHOOSE i \in DOMAIN trace :
                 IsErrorEvent(trace[i]) /\ \A j \in 1..(i - 1) : ~IsErrorEvent(trace[j])

Times(ev) == Cardinality({i \in DOMAIN trace : trace[i].ev = ev})
TimesFor(ev, p) == Cardinality({i \in DOMAIN trace : trace[i].ev = ev /\ trace[i].prog = p})

\* The files reachable from the root through include edges.
RECURSIVE Closure(_, _, _)
Closure(heap, S, n) ==
    IF n = 0 THEN S
    ELSE Closure(heap, S \cup {q \in DOMAIN heap : \E p \in S : InSeq(q, heap[p].Includes)}, n - 1)
Reachable(heap) == Closure(heap, {Root}, Cardinality(DOMAIN heap))

\* The full-file artifacts and the fragments of a list of contents.
IsFile(a) == a.InsertionPoint = ""

CauseOf(e) ==
    IF e.ev = "options" THEN "config"
    ELSE IF e.ev = "trim" THEN "trim"
    ELSE IF e.ev = "scope" THEN "resolve"
    ELSE IF e.out = "imports" THEN "imports"
    ELSE "template"

\* The files renderOneFile was called on, in order.
Rendered == SelectSeq(trace, LAMBDA e : e.ev = "scope")

\* -------------------------------------------------------------- claims

\* C1: whenever a fatal error was recorded during a Generate call (by option
\* handling, trimming, scope building, template execution or import
\* resolution, for any file), the response returned is an error response
\* that carries the error alone: none of the artifacts appended before the
\* failure is in it.
C1_ErrorResponseAlone ==
    (pc = "done" /\ ErrorRecorded) =>
        /\ response.isError
        /\ response.Error # NilErr
        /\ response.Contents = <<>>

\* A call that rendered one file in full and then failed on the imports of
\* another file's main artifact, which was already appended.
C1_Witness ==
    /\ pc = "done"
    /\ response.isError
    /\ Len(trace) > 0
    /\ LET last == trace[Len(trace)]
       IN  /\ last.ev = "render" /\ last.arg = "main" /\ last.out = "imports"
           /\ \E i \in DOMAIN trace :
                 trace[i].ev = "render" /\ trace[i].out = "ok" /\ trace[i].prog # last.prog
    /\ Len(res.Contents) >= 3

StageEvents == {"trim", "filter", "templates", "process", "scope", "render"}

\* C2: within one Generate call the first fatal error aborts all that
\* remains: once an error is recorded no later stage runs (no trimming, no
\* capability filtering, no template preparation, no scope building, no
\* rendering), and the error of the response is that first error.
C2_FirstErrorAborts ==
    ErrorRecorded =>
        /\ \A j \in DOMAIN trace : j > FirstError => trace[j].ev \notin StageEvents
        /\ pc = "done" => response.Error.cause = CauseOf(trace[FirstError])

\* C3 as stated: a successful Generate call renders, in recursive mode, each
\* file reachable from the root exactly once and, otherwise, the root alone.
C3_Original ==
    (pc = "done" /\ ~response.isError) =>
        LET want == IF req.Recursive THEN Reachable(req.AST) ELSE {Root}
        IN  /\ \A p \in want : TimesFor("scope", p) = 1
            /\ \A i \in DOMAIN Rendered : Rendered[i].prog \in want

\* C3: a successful Generate call that does not skip Go code generation
\* renders, in recursive mode, each file reachable from the root through
\* include edges exactly once (files are told apart by identity: two files
\* of one name are both rendered) and, in non-recursive mode, the root alone.
C3_EachReachableOnce ==
    (pc = "done" /\ ~response.isError /\ ~utils.features.SkipGoGen) =>
        LET want == IF req.Recursive THEN Reachable(req.AST) ELSE {Root}
        IN  /\ \A p \in want : TimesFor("scope", p) = 1
            /\ \A i \in DOMAIN Rendered : Rendered[i].prog \in want

\* A successful recursive call over a diamond: the shared file has two
\* parents and was rendered.
C3_Witness ==
    /\ pc = "done"
    /\ ~response.isError
    /\ req.Recursive
    /\ \E p, q, c \in DOMAIN req.AST :
          /\ p # q
          /\ InSeq(c, req.AST[p].Includes)
          /\ InSeq(c, req.AST[q].Includes)
          /\ TimesFor("scope", c) = 1
          /\ TimesFor("scope", p) = 1
          /\ TimesFor("scope", q) = 1

StreamingIn(funcs) == {f \in funcs : f.streaming}

\* C4: with streaming support disabled, no file whose scope is built (the
\* root or, in recursive mode, an included file) still holds a streaming
\* function when its scope is built, and no artifact rendered mentions one.
C4_NoStreamingRendered ==
    ~utils.features.ThriftStreaming =>
        /\ StreamingIn(scopes.localScope.funcs) = {}
        /\ \A i \in DOMAIN res.Contents : \A j \in DOMAIN res.Contents[i].Content :
              StreamingIn(res.Contents[i].Content[j].data.funcs) = {}

\* What the filter is given and what it leaves, for service i of the root.
Given(i) == req.AST[Root].Services[i].Functions
Left(i) == ast[Root].Services[i].Functions
CountKind(fs, kind) == Cardinality({j \in DOMAIN fs : fs[j].Kind = kind})
WarningsFor(i) ==
    Cardinality({j \in DOMAIN log : log[j].level = "warn" /\ log[j].svc = req.AST[Root].Services[i].Name})
Filtered == pc = "gen" /\ ~utils.features.ThriftStreaming

\* C5 as stated: a service of N functions, K of them streaming, is left with
\* exactly N-K functions and exactly K warnings are logged for it.
C5_Original ==
    Filtered =>
        \A i \in DOMAIN req.AST[Root].Services :
            /\ Len(Left(i)) = Len(Given(i)) - CountKind(Given(i), "streaming")
            /\ WarningsFor(i) = CountKind(Given(i), "streaming")

\* C5: a service of N functions, K of them streaming and E of them not
\* classifiable, is left by the filter with exactly N-K-E functions, and
\* exactly K+E warnings are logged for it.
C5_FilterExact ==
    Filtered =>
        \A i \in DOMAIN req.AST[Root].Services :
            /\ Len(Left(i)) = Len(Given(i)) - CountKind(Given(i), "streaming")
                                            - CountKind(Given(i), "unparsable")
            /\ WarningsFor(i) = CountKind(Given(i), "streaming")
                                + CountKind(Given(i), "unparsable")

\* The filter has run on a service that held a streaming, an unclassifiable
\* and a unary function.
C5_Witness ==
    /\ Filtered
    /\ \E i \in DOMAIN req.AST[Root].Services :
          /\ CountKind(Given(i), "streaming") = 1
          /\ CountKind(Given(i), "unparsable") = 1
          /\ Len(Given(i)) = 3
          /\ Len(Left(i)) = 1

TrimFailed == \E i \in DOMAIN trace : trace[i].ev = "trim" /\ trace[i].out = "err"

\* C6: when trimming is enabled and the trimmer fails, Generate returns an
\* error response and nothing runs on the AST it leaves: the failure is the
\* last stage of the call (no capability filter, no scope, no rendering).
C6_TrimAllOrNothing ==
    TrimFailed =>
        /\ utils.features.TrimIDL
        /\ pc = "done"
        /\ response.isError
        /\ response.Contents = <<>>
        /\ trace[Len(trace)].ev = "trim"
        /\ Times("filter") = 0 /\ Times("scope") = 0 /\ Times("render") = 0

\* The trimmer failed after pruning a file, with streaming support disabled
\* and a streaming function in the root: the function is still there.
C6_Witness ==
    /\ TrimFailed
    /\ pc = "done"
    /\ ast # req.AST
    /\ ~utils.features.ThriftStreaming
    /\ \E i \in DOMAIN ast[Root].Services :
          CountKind(ast[Root].Services[i].Functions, "streaming") > 0

Files(contents) == SelectSeq(contents, IsFile)
KindRank(a) ==
    LET t == a.Content[1].tpl
    IN  IF t = "thrift" THEN 1
        ELSE IF t = "thrift-ref" THEN 2
        ELSE IF t = "thrift-reflection-util" THEN 3
        ELSE IF t = "thrift-reflection" THEN 4
        ELSE 0
ProgOf(a) == a.Content[1].data.prog
\* The place of a file in the order the walker delivers the files in.
Delivery(p) ==
    LET order == IF req.Recursive THEN DepthFirstSearch(req.AST, Root) ELSE <<Root>>
    IN  CHOOSE i \in DOMAIN order : order[i] = p

\* C7: in a successful response the full-file artifacts of one file come in
\* the order main, reference, reflection-reference, reflection (the last
\* two only with reflection enabled), the artifacts of one file are
\* contiguous, and the files' groups come in the order of delivery.
C7_ArtifactOrder ==
    (pc = "done" /\ ~response.isError) =>
        LET fs == Files(response.Contents)
        IN  /\ \A i \in DOMAIN fs :
                  /\ KindRank(fs[i]) \in 1..4
                  /\ KindRank(fs[i]) > 2 => utils.features.WithReflection
            /\ \A i, j \in DOMAIN fs :
                  i < j =>
                     \/ Delivery(ProgOf(fs[i])) < Delivery(ProgOf(fs[j]))
                     \/ /\ ProgOf(fs[i]) = ProgOf(fs[j])
                        /\ KindRank(fs[i]) < KindRank(fs[j])

\* A successful recursive call with reflection enabled in which a file other
\* than the root got all four of its artifacts.
C7_Witness ==
    /\ pc = "done"
    /\ ~response.isError
    /\ req.Recursive
    /\ \E p \in DOMAIN ast :
          /\ p # Root
          /\ \A k \in 1..4 :
                \E i \in DOMAIN response.Contents :
                    /\ IsFile(response.Contents[i])
                    /\ ProgOf(response.Contents[i]) = p
                    /\ KindRank(response.Contents[i]) = k

AllPartsEmpty(s) == \A k \in PartKinds : s.parts[k] = 0
NextCall == RenderPlan(utils.features, scopes, tpl, MainFilename(ast[cur]))[step]

\* C8: with suppression enabled a render call on an empty scope appends
\* nothing and returns no error; a scope with a non-empty partition is never
\* suppressed; with suppression disabled an empty scope is rendered like any
\* other: when its template succeeds its full-file artifact is appended.
C8_EmptyScopeSuppression ==
    [][(pc = "file" /\ step >= 1 /\ NextCall.scope.kind # "nil") =>
          LET s == NextCall.scope
              ran == trace'[Len(trace')]
          IN  /\ (utils.features.SkipEmpty /\ AllPartsEmpty(s)) =>
                    /\ ran.out = "skipped"
                    /\ res' = res
                    /\ err' = NilErr
              /\ (~AllPartsEmpty(s) \/ ~utils.features.SkipEmpty) =>
                    /\ ran.out # "skipped"
                    /\ ran.out # "exec" =>
                          /\ Len(res'.Contents) > Len(res.Contents)
                          /\ LET a == res'.Contents[Len(res.Contents) + 1]
                             IN  IsFile(a) /\ a.Content[1].data = s
       ]_vars

\* A render call on an empty scope was suppressed.
C8_Witness ==
    /\ utils.features.SkipEmpty
    /\ scopes.localScope.kind = "local"
    /\ AllPartsEmpty(scopes.localScope)
    /\ trace[Len(trace)].ev = "render"
    /\ trace[Len(trace)].arg = "main"
    /\ trace[Len(trace)].out = "skipped"
    /\ res.Contents = <<>>

Before(evs, ev) ==
    \A i, j \in DOMAIN trace : (trace[i].ev \in evs /\ trace[j].ev = ev) => i < j

\* What C10 says of every state of a call, but for how often the filter is
\* applied: each mutation at most once, trimming exactly once when asked
\* for, trimming before filtering, both before the first scope is built.
MutationOrder ==
    /\ Times("trim") <= 1
    /\ Times("filter") <= 1
    /\ (pc = "done" /\ utils.features.TrimIDL) => Times("trim") = 1
    /\ Before({"trim"}, "filter")
    /\ Before({"trim", "filter"}, "scope")

\* What C10 says of every step of a call: a step that changes a file is the
\* trimmer's or the filter's, and once a scope is built no file changes.
MutationSteps ==
    /\ (pc # "idle" /\ ast' # ast) =>
          /\ Len(trace') = Len(trace) + 1
          /\ trace'[Len(trace')].ev \in {"trim", "filter"}
    /\ Times("scope") > 0 => ast' = ast

\* C10 as stated: the only mutations of the files are trimming and filtering,
\* each applied at most once and exactly once when its feature flag selects
\* it, trimming first, both before the first scope is built, and no file is
\* mutated once a scope is built.
C10_Original ==
    /\ [](/\ MutationOrder
          /\ (pc = "done" /\ ~utils.features.ThriftStreaming) => Times("filter") = 1)
    /\ [][MutationSteps]_vars

\* C10: the only mutations of the files are trimming and filtering, each
\* applied at most once; trimming is applied exactly once when its flag
\* selects it, filtering exactly once when its flag selects it and trimming
\* did not fail; trimming comes first, both come before the first scope is
\* built, and no file is mutated once a scope is built.
C10_MutationTiming ==
    /\ [](/\ MutationOrder
          /\ (pc = "done" /\ ~utils.features.ThriftStreaming /\ ~TrimFailed) =>
                Times("filter") = 1)
    /\ [][MutationSteps]_vars

\* A call that trimmed a file, filtered the root and then built the scopes
\* of two files or more.
C10_Witness ==
    /\ pc = "done"
    /\ Times("trim") = 1
    /\ Times("filter") = 1
    /\ Times("scope") >= 2
    /\ \E p \in DOMAIN ast : ast[p].Decls # req.AST[p].Decls
    /\ ast[Root].Services # req.AST[Root].Services

\* ------------------------------------------------------------------ C11

\* The artifact at position i of a response and the one right after it are a
\* full file and the imports fragment of the same Scope: the fragment is
\* tagged "imports" and holds the rendering of the Import List of the Scope
\* the file was rendered from, by the same template, and nothing else.
FileThenImports(contents, i) ==
    LET f == contents[i]
        g == contents[i + 1]
    IN  /\ IsFile(f)
        /\ Len(f.Content) = 1
        /\ f.Content[1].define = f.Content[1].tpl
        /\ g.InsertionPoint = "imports"
        /\ g.Content = <<Chunk(f.Content[1].tpl, "Imports", ResolveImports(f.Content[1].data))>>

\* C11: in every response without error the artifacts come in pairs, a full
\* file directly followed by exactly one "imports" fragment that holds only
\* the rendering of the same Scope's Import List: the number of artifacts is
\* even, odd positions are files, even positions are their fragments.
C11_FileImportsPairs ==
    (pc = "done" /\ ~response.isError) =>
        /\ Len(response.Contents) % 2 = 0
        /\ \A i \in 1..Len(response.Contents) :
              IF i % 2 = 1
              THEN FileThenImports(response.Contents, i)
              ELSE ~IsFile(response.Contents[i])

\* A response without error that holds two pairs, the second rendered with
\* the buffer the first one left in the pool.
C11_Witness ==
    /\ pc = "done"
    /\ ~response.isError
    /\ Len(response.Contents) >= 4
    /\ response.Contents[1].Content # response.Contents[3].Content

\* ------------------------------------------------------------------ C12

\* The names of the IDL files the naming is checked on: up to MaxStem
\* characters, dots and the letters of "go" among them.
StemChars == {"a", ".", "g", "o"}
Stems == UNION {[1..n -> StemChars] : n \in 1..MaxStem}

\* renderOneFile has built a local and a reference scope for a one-file
\* request and comes to its render calls.
InitNames ==
    /\ pc = "file"
    /\ step = 1
    /\ cur = Root
    /\ err = NilErr
    /\ \E ps \in SUBSET {"with_reflection", "keep_code_ref_name"} :
          /\ utils = [isNil |-> FALSE, features |-> FeaturesOf(ps)]
          /\ \E stem \in Stems :
                /\ ast = (Root :> Prog(stem, <<>>, <<>>, {"structs"}, FALSE, "some"))
                /\ req = [AST |-> ast, Recursive |-> FALSE, GeneratorParameters |-> ps]
    /\ tpl = prepareTemplates(NilErr, NilTpl)
    /\ scopes = [localScope |-> LocalScopeOf(Root, ast[Root]),
                 refScope |-> RefScopeOf(Root, ast[Root])]
    /\ res = NewResponse
    /\ log = <<Note("info", "Processing")>>
    /\ processed = {Root}
    /\ trees = <<>>
    /\ poolBuf = <<>>
    /\ response = NoResponse
    /\ AtRest
    /\ calls = 1
    /\ trace = <<Event("options", NoProg, "", "ok"), Event("templates", NoProg, "", "ok"),
                 Event("process", Root, "", "ok"), Event("scope", Root, "", "ok")>>

SpecNames == InitNames /\ [][NextRender]_vars

\* F with its final ".go" replaced by suffix followed by ".go".
Replaced(F, suffix) == SubSeq(F, 1, Len(F) - Len(DotGo)) \o suffix \o DotGo
EndsInDotGo(F) == Len(F) >= Len(DotGo) /\ SubSeq(F, Len(F) - Len(DotGo) + 1, Len(F)) = DotGo

\* C12: for a main file name F that ends in ".go", with preserve-name off the
\* reference, reflection-reference and reflection files are named F with ".go"
\* replaced by "-ref.go", "-reflection-ref.go" and "-reflection.go", so the
\* names of the four files differ pairwise; with preserve-name on the
\* reference file is named exactly F.
C12_DerivedNames ==
    LET F == MainFilename(ast[Root])
        keepName == utils.features.KeepCodeRefName
        files == Files(res.Contents)
    IN  EndsInDotGo(F) =>
          /\ \A i \in DOMAIN files :
                LET a == files[i]
                IN  /\ KindRank(a) = 1 => a.Name = F
                    /\ (KindRank(a) = 2 /\ keepName) => a.Name = F
                    /\ (KindRank(a) = 2 /\ ~keepName) =>
                          a.Name = Replaced(F, <<"-", "r", "e", "f">>)
                    /\ (KindRank(a) = 3 /\ ~keepName) =>
                          a.Name = Replaced(F, <<"-", "r", "e", "f", "l", "e", "c", "t", "i",
                                                 "o", "n", "-", "r", "e", "f">>)
                    /\ (KindRank(a) = 4 /\ ~keepName) =>
                          a.Name = Replaced(F, <<"-", "r", "e", "f", "l", "e", "c", "t", "i",
                                                 "o", "n">>)
          /\ ~keepName => \A i, j \in DOMAIN files : i # j => files[i].Name # files[j].Name

\* All four files of an IDL file whose own name ends in ".go" were named,
\* with preserve-name off.
C12_Witness ==
    /\ ~utils.features.KeepCodeRefName
    /\ Len(Files(res.Contents)) = 4
    /\ EndsInDotGo(ast[Root].Filename)

\* ------------------------------------------------------------------ C13

\* filepath.Ext: the suffix of path that begins at the last dot of its last
\* element, empty when that element has no dot.
RECURSIVE ExtFrom(_, _)
ExtFrom(path, i) ==
    IF i = 0 THEN <<>>
    ELSE IF path[i] = "/" THEN <<>>
    ELSE IF path[i] = "." THEN SubSeq(path, i, Len(path))
    ELSE ExtFrom(path, i - 1)
Ext(path) == ExtFrom(path, Len(path))

\* format.Source when it succeeds: the content, formatted.
Source(content) == <<"gofmt", content>>

\* What PostProcess is called with: paths of up to MaxPath characters, two
\* contents; fmt is whether format.Source takes the content.
PathChars == {"a", ".", "g", "o", "/"}
Paths == UNION {[1..n -> PathChars] : n \in 1..MaxPath}
PostContents == {"package a", "package"}
FmtOutcomes == {"ok", "fail"}

Posted(path, content, out, e, invoked) ==
    [called |-> TRUE, path |-> path, content |-> content, out |-> out, err |-> e,
     invoked |-> invoked]

\* A PostProcess that hands the formatter's error to its caller.
PostProcess_ReturnsFormatError(path, content, fmt) ==
    /\ pc = "done"
    /\ ~utils.isNil
    /\ IF utils.features.NoFmt
       THEN post' = Posted(path, content, content, NilErr, FALSE) /\ UNCHANGED log
       ELSE IF Ext(path) = DotGo
       THEN IF fmt = "fail"
            THEN /\ post' = Posted(path, content, content, MkErr("format", path), TRUE)
                 /\ UNCHANGED log
            ELSE post' = Posted(path, content, Source(content), NilErr, TRUE) /\ UNCHANGED log
       ELSE post' = Posted(path, content, content, NilErr, FALSE) /\ UNCHANGED log
    /\ UNCHANGED <<pc, err, utils, tpl, req, res, ast, processed, trees, cur, step, scopes,
                   poolBuf, response, trace, checkedOut, bufOps, trimmer, calls>>

\* PostProcess, called on a backend that has served a Generate call.
PostProcess(path, content, fmt) ==
    /\ pc = "done"
    /\ ~utils.isNil
    /\ IF utils.features.NoFmt
       THEN post' = Posted(path, content, content, NilErr, FALSE) /\ UNCHANGED log
       ELSE IF Ext(path) = DotGo
       THEN IF fmt = "fail"
            THEN /\ log' = Append(log, Note("warn", <<"Failed to format", path>>))
                 /\ post' = Posted(path, content, content, NilErr, TRUE)
            ELSE post' = Posted(path, content, Source(content), NilErr, TRUE) /\ UNCHANGED log
       ELSE post' = Posted(path, content, content, NilErr, FALSE) /\ UNCHANGED log
    /\ UNCHANGED <<pc, err, utils, tpl, req, res, ast, processed, trees, cur, step, scopes,
                   poolBuf, response, trace, checkedOut, bufOps, trimmer, calls>>

\* Generate has returned from a one-file request that skipped generation.
InitPost ==
    /\ pc = "done"
    /\ err = NilErr
    /\ \E ps \in {{"thrift_streaming", "skip_go_gen"},
                  {"thrift_streaming", "skip_go_gen", "no_fmt"}} :
          /\ utils = [isNil |-> FALSE, features |-> FeaturesOf(ps)]
          /\ req = [AST |-> Single, Recursive |-> FALSE, GeneratorParameters |-> ps]
    /\ tpl = NilTpl
    /\ res = NewResponse
    /\ log = <<Note("warn", "You are skipping Thriftgo Go Code Generating")>>
    /\ ast = Single
    /\ processed = {}
    /\ trees = <<>>
    /\ cur = NoProg
    /\ step = 0
    /\ scopes = NoScopes
    /\ poolBuf = <<>>
    /\ response = buildResponse(NilErr, NewResponse)
    /\ trace = <<Event("options", NoProg, "", "ok")>>
    /\ AtRest
    /\ calls = 1

\* One call is followed from each state Generate left: a call reads the
\* features and changes nothing a later call reads.
NextPost ==
    /\ ~post.called
    /\ \E path \in Paths : \E content \in PostContents : \E fmt \in FmtOutcomes :
          PostProcess(path, content, fmt)

SpecPost == InitPost /\ [][NextPost]_vars

\* The last PostProcess call logged a warning that names its path.
WarnedOf(path) ==
    /\ log # <<>>
    /\ log[Len(log)] = Note("warn", <<"Failed to format", path>>)

\* C13: PostProcess returns no error, whatever the path and the content.
\* When the formatter fails on a ".go" file a warning is logged and the
\* content comes back unchanged; when formatting is disabled or the path does
\* not end in ".go" the content comes back unchanged and the formatter is not
\* invoked.
C13_PostProcessNeverFails ==
    /\ [](post.called =>
            /\ post.err = NilErr
            /\ (utils.features.NoFmt \/ ~EndsInDotGo(post.path)) =>
                  (post.out = post.content /\ ~post.invoked)
            /\ (~utils.features.NoFmt /\ EndsInDotGo(post.path)) =>
                  /\ post.invoked
                  /\ post.out # post.content => post.out = Source(post.content))
    /\ [][(PostProcess(post'.path, post'.content, "fail") /\ ~utils.features.NoFmt
               /\ EndsInDotGo(post'.path))
           => (post'.out = post'.content /\ post'.err = NilErr /\ Len(log') = Len(log) + 1
               /\ log'[Len(log')] = Note("warn", <<"Failed to format", post'.path>>))]_vars

\* The formatter was invoked on a path that has more than its ".go" extension,
\* failed, a warning was logged and the content came back as it was given.
C13_Witness ==
    /\ post.called
    /\ post.invoked
    /\ post.out = post.content
    /\ WarnedOf(post.path)
    /\ Len(post.path) > Len(Ext(post.path))

\* ------------------------------------------------------------------ C14

\* fs holds functions of gs only, each as it was, in the order of gs (the
\* functions of a service are numbered in source order).
IsSubSeqOf(fs, gs) ==
    /\ \A j \in DOMAIN fs : fs[j].Name \in DOMAIN gs /\ gs[fs[j].Name] = fs[j]
    /\ \A j, k \in DOMAIN fs : j < k => fs[j].Name < fs[k].Name

\* C14: the capability filter removes no Service: after it has run the file
\* has the same Services in the same order, each the same but for its
\* Functions, also when a Service is left without any Function; nothing but
\* Function lists changes; every Function left is one the Service had, and
\* the Functions left keep their relative order.
C14_ServicesStay ==
    Filtered =>
        /\ Len(ast[Root].Services) = Len(req.AST[Root].Services)
        /\ [ast[Root] EXCEPT !.Services = req.AST[Root].Services] = req.AST[Root]
        /\ \A i \in DOMAIN req.AST[Root].Services :
              /\ i \in DOMAIN ast[Root].Services
              /\ [ast[Root].Services[i] EXCEPT !.Functions = Given(i)] = req.AST[Root].Services[i]
              /\ IsSubSeqOf(Left(i), Given(i))
        /\ DOMAIN ast = DOMAIN req.AST

\* The filter has left the first of two Services without Functions and the
\* second with two.
C14_Witness ==
    /\ Filtered
    /\ Len(req.AST[Root].Services) = 2
    /\ Given(1) # <<>>
    /\ Left(1) = <<>>
    /\ Len(Left(2)) = 2

\* ------------------------------------------------------------------ C15

\* The file renderOneFile was generating when the step recorded by e failed:
\* the file of the failing render call, the main file when the scopes could
\* not be built.
FileGenerated(e) ==
    LET plan == RenderPlan(utils.features, scopes, tpl, MainFilename(ast[e.prog]))
    IN  IF e.ev = "render"
        THEN (CHOOSE c \in {plan[i] : i \in DOMAIN plan} : c.kind = e.arg).name
        ELSE MainFilename(ast[e.prog])

\* C15: when the processing of a file fails, at whichever step (building its
\* scopes, executing a template, resolving the imports, rendering the imports
\* fragment), the error of the response names the file that was being
\* generated together with the cause.
C15_ErrorNamesFile ==
    (pc = "done" /\ response.isError /\ ErrorRecorded
        /\ trace[FirstError].ev \in {"scope", "render"}) =>
        /\ response.Error.cause = CauseOf(trace[FirstError])
        /\ response.Error.file = FileGenerated(trace[FirstError])

\* ------------------------------------------------------------------ C16

\* The buffers a render call holds after the first n of its buffer operations.
HeldAfter(ops, n) == CountOp(SubSeq(ops, 1, n), "get") - CountOp(SubSeq(ops, 1, n), "put")

\* A call that takes a buffer takes one, first of all, resets it right before
\* each template execution, holds no second one, and puts it back last.
WellUsed(ops) ==
    /\ ops[1] = "get"
    /\ ops[Len(ops)] = "put"
    /\ CountOp(ops, "get") = 1
    /\ CountOp(ops, "put") = 1
    /\ \A i \in DOMAIN ops : ops[i] = "exec" => ops[i - 1] = "reset"
    /\ \A n \in 0..Len(ops) : HeldAfter(ops, n) \in {0, 1}

LastEvent == trace[Len(trace)]

\* C16: a render call that takes a buffer from the pool puts it back on every
\* exit path, with or without error, and resets it before each of its two
\* uses; a call that is skipped takes none; between render calls and when
\* Generate returns no buffer is checked out, and never more than one is.
C16_BufferDiscipline ==
    /\ checkedOut = 0
    /\ (trace # <<>> /\ LastEvent.ev = "render") =>
          /\ LastEvent.out = "skipped" <=> bufOps = <<>>
          /\ bufOps # <<>> => WellUsed(bufOps)
          /\ LastEvent.out \in {"ok", "importsExec"} => CountOp(bufOps, "reset") = 2

\* Generate has returned the error of a render call that failed on its
\* second use of the buffer, after a call that was skipped.
C16_Witness ==
    /\ pc = "done"
    /\ response.isError
    /\ LastEvent.ev = "render"
    /\ LastEvent.out = "importsExec"
    /\ WellUsed(bufOps)
    /\ \E i \in DOMAIN trace : trace[i].ev = "render" /\ trace[i].out = "skipped"

\* ------------------------------------------------------------------ C17

\* Trimmer.marks[filename], for the one filename preProcess is called with:
\* the declarations marked kept, by file and kind, and the include edges
\* marked kept, by file and position in its include list.
DeclMark(p, k) == [what |-> "decl", prog |-> p, at |-> k]
IncludeMark(p, i) == [what |-> "include", prog |-> p, at |-> i]

\* markKeptPart: marks the declarations of the file that are kept and says
\* whether it marked any; marking what is marked already adds nothing.
KeptPart(prog) == IF prog.Dead THEN {} ELSE prog.Decls
markKeptPart(marks, p, prog) ==
    [marks |-> marks \cup {DeclMark(p, k) : k \in KeptPart(prog)},
     ret   |-> KeptPart(prog) # {}]

\* One call of preProcess in progress: its file, the include its loop has
\* come to, and ret.
Frame(p, i, ret) == [prog |-> p, i |-> i, ret |-> ret]
Top == trimmer.stack[Len(trimmer.stack)]
Caller == trimmer.stack[Len(trimmer.stack) - 1]
Pop(stack) == SubSeq(stack, 1, Len(stack) - 1)

\* preProcess is entered, for the root or for include.Reference of the
\* include the calling loop has come to: ret := t.markKeptPart(ast, filename).
preProcessCall ==
    /\ pc = "trim"
    /\ ~trimmer.done
    /\ \/ trimmer.stack = <<>>
       \/ trimmer.stack # <<>> /\ Top.i <= Len(ast[Top.prog].Includes)
    /\ LET callee == IF trimmer.stack = <<>> THEN Root ELSE ast[Top.prog].Includes[Top.i]
           m == markKeptPart(trimmer.marks, callee, ast[callee])
       IN  trimmer' = [trimmer EXCEPT !.marks = m.marks,
                                      !.stack = Append(@, Frame(callee, 1, m.ret))]
    /\ UNCHANGED <<pc, err, utils, tpl, req, res, log, ast, processed, trees, cur, step,
                   scopes, poolBuf, response, trace, checkedOut, bufOps, post, calls>>

\* A return that marks the include edge whatever the call returned.
preProcessReturn_MarksAlways ==
    /\ pc = "trim"
    /\ trimmer.stack # <<>>
    /\ Top.i > Len(ast[Top.prog].Includes)
    /\ IF Len(trimmer.stack) = 1
       THEN trimmer' = [trimmer EXCEPT !.stack = <<>>, !.ret = Top.ret, !.done = TRUE]
       ELSE trimmer' = [trimmer EXCEPT
                           !.marks = @ \cup {IncludeMark(Caller.prog, Caller.i)},
                           !.stack = Append(Pop(Pop(@)),
                                            Frame(Caller.prog, Caller.i + 1,
                                                  Caller.ret \/ Top.ret))]
    /\ UNCHANGED <<pc, err, utils, tpl, req, res, log, ast, processed, trees, cur, step,
                   scopes, poolBuf, response, trace, checkedOut, bufOps, post, calls>>

\* preProcess returns ret once its loop is through; in the caller, if marked,
\* the include is marked kept and ret becomes true, and the loop goes on.
preProcessReturn ==
    /\ pc = "trim"
    /\ trimmer.stack # <<>>
    /\ Top.i > Len(ast[Top.prog].Includes)
    /\ IF Len(trimmer.stack) = 1
       THEN trimmer' = [trimmer EXCEPT !.stack = <<>>, !.ret = Top.ret, !.done = TRUE]
       ELSE LET marked == Top.ret
            IN  trimmer' = [trimmer EXCEPT
                               !.marks = IF marked
                                         THEN @ \cup {IncludeMark(Caller.prog, Caller.i)}
                                         ELSE @,
                               !.stack = Append(Pop(Pop(@)),
                                                Frame(Caller.prog, Caller.i + 1,
                                                      IF marked THEN TRUE ELSE Caller.ret))]
    /\ UNCHANGED <<pc, err, utils, tpl, req, res, log, ast, processed, trees, cur, step,
                   scopes, poolBuf, response, trace, checkedOut, bufOps, post, calls>>

\* The include graphs preProcess is run on: up to MaxProgs files, each
\* including, in any order, files numbered above it (so no cycle; a file may
\* be included by several), each with or without declarations that are kept.
InjSeqs(S) ==
    UNION {{f \in [1..k -> S] : \A i, j \in 1..k : i # j => f[i] # f[j]} :
              k \in 0..Cardinality(S)}
RECURSIVE IncludeChoicesFrom(_, _)
IncludeChoicesFrom(q, n) ==
    IF q > n THEN {<<>>}
    ELSE {<<incs>> \o rest : incs \in InjSeqs((q + 1)..n), rest \in IncludeChoicesFrom(q + 1, n)}
IncludeChoices(n) == IncludeChoicesFrom(1, n)
StemNames == <<"r", "a", "b", "c", "d">>
IncludeGraphs ==
    UNION {{[q \in 1..n |-> Prog(<<StemNames[q]>>, incs[q], <<>>, {"structs"}, dead[q], "nil")] :
               incs \in IncludeChoices(n), dead \in [1..n -> BOOLEAN]} : n \in 1..MaxProgs}

\* Generate on a request that asks for trimming has come to TrimAST, which
\* runs preProcess on the root with a Trimmer that has marked nothing yet.
InitTrim ==
    /\ pc = "trim"
    /\ err = NilErr
    /\ utils = [isNil |-> FALSE, features |-> FeaturesOf({"trim_idl"})]
    /\ tpl = NilTpl
    /\ \E g \in IncludeGraphs :
          /\ ast = g
          /\ req = [AST |-> g, Recursive |-> TRUE, GeneratorParameters |-> {"trim_idl"}]
    /\ res = NewResponse
    /\ log = <<>>
    /\ processed = {}
    /\ trees = <<>>
    /\ cur = NoProg
    /\ step = 0
    /\ scopes = NoScopes
    /\ poolBuf = <<>>
    /\ response = NoResponse
    /\ trace = <<Event("options", NoProg, "", "ok")>>
    /\ AtRest
    /\ calls = 1

NextTrim ==
    \/ preProcessCall
    \/ preProcessReturn

\* The calls of one goroutine: a call that can take its next step takes it.
SpecTrim == InitTrim /\ [][NextTrim]_vars /\ WF_vars(NextTrim)

\* The files p includes, directly or through other files, and p itself.
RECURSIVE IncludedBy(_, _, _)
IncludedBy(heap, S, n) ==
    IF n = 0 THEN S
    ELSE IncludedBy(heap, S \cup {q \in DOMAIN heap : \E r \in S : InSeq(q, heap[r].Includes)},
                    n - 1)
Below(p) == IncludedBy(ast, {p}, Cardinality(DOMAIN ast))

\* Something is marked kept in p or in a file p transitively includes.
KeptBelow(marks, p) == \E m \in marks : m.what = "decl" /\ m.prog \in Below(p)

\* The call on top is through with its loop and returns next.
Returning == trimmer.stack # <<>> /\ Top.i > Len(ast[Top.prog].Includes)

\* C17: on an acyclic include graph, where a file may be included by
\* several, preProcess terminates; the call on a file returns true iff
\* something was marked kept in that file or in a file it transitively
\* includes; when a call returns into the loop of its caller, the include
\* the loop stands at is marked kept iff the call returned true; no mark is
\* ever removed, a second visit of a file only adds.
C17_PreProcess ==
    /\ <>(trimmer.done)
    /\ [](Len(trimmer.stack) <= Cardinality(DOMAIN ast))
    /\ [](Returning => (Top.ret <=> KeptBelow(trimmer.marks, Top.prog)))
    /\ [](trimmer.done => (trimmer.ret <=> KeptBelow(trimmer.marks, Root)))
    /\ [][(Returning /\ Len(trimmer.stack) > 1) =>
             (IncludeMark(Caller.prog, Caller.i) \in trimmer'.marks <=> Top.ret)]_vars
    /\ [][trimmer.marks \subseteq trimmer'.marks]_vars

\* preProcess has returned true on a graph in which the root includes a file
\* directly and through another file, and only that file holds declarations
\* that are kept: every include edge on both paths is marked.
C17_Witness ==
    /\ trimmer.done
    /\ trimmer.ret
    /\ Cardinality(DOMAIN ast) = 3
    /\ ast[1].Includes = <<2, 3>>
    /\ ast[2].Includes = <<3>>
    /\ IncludeMark(1, 1) \in trimmer.marks
    /\ IncludeMark(1, 2) \in trimmer.marks
    /\ IncludeMark(2, 1) \in trimmer.marks
    /\ DeclMark(2, "structs") \notin trimmer.marks
    /\ DeclMark(1, "structs") \notin trimmer.marks

\* ------------------------------------------------------------------ C18

\* Generate has returned: the response is with the caller, the locals of
\* executeTemplates and renderOneFile are gone, the fields of the backend
\* stay as the call left them, and the backend can be called again.
Return ==
    /\ pc = "done"
    /\ calls < MaxCalls
    /\ pc' = "idle"
    /\ response' = NoResponse
    /\ processed' = {}
    /\ trees' = <<>>
    /\ cur' = NoProg
    /\ step' = 0
    /\ scopes' = NoScopes
    /\ UNCHANGED <<err, utils, tpl, req, res, log, ast, poolBuf, trace, checkedOut, bufOps,
                   post, trimmer, calls>>

\* The requests successive calls are made with: one file, and parameters
\* that are empty, rejected, or ask for trimming or for no generation.
ReuseParamSets == {{}, {BadParam}, {"trim_idl"}, {"skip_go_gen"}}
ReuseRequests == [AST : {Single}, Recursive : {FALSE}, GeneratorParameters : ReuseParamSets]

NextReuse ==
    \/ \E r \in ReuseRequests : \E applied \in AppliedChoices(r.GeneratorParameters) :
          Generate(r, applied)
    \/ TrimSkip
    \/ TrimOk
    \/ \E pruned \in SUBSET DeadProgs(ast) : TrimFail(pruned)
    \/ Filter
    \/ SkipGen
    \/ StartGen
    \/ Receive
    \/ Drained
    \/ \E out \in {"ok", "err"} : BuildScope(out)
    \/ \E out \in Outcomes : Render(out)
    \/ Return

\* Up to MaxCalls successive Generate calls on one backend.
SpecReuse == Init /\ [][NextReuse]_vars

\* The request of the call is valid and no stage of the call failed.
ValidCall == BadParam \notin req.GeneratorParameters /\ ~ErrorRecorded

\* C18: successive requests on one backend are independent: when a call
\* returns, its response is an error only if a stage of that very call
\* failed, and the flags in force are those of that call's request; so a call
\* with a valid request that follows a call that ended in an error returns
\* its own artifacts, not the earlier error.
C18_CallsIndependent ==
    (pc = "done" /\ ValidCall) =>
        /\ ~response.isError
        /\ utils.features = FeaturesOf(req.GeneratorParameters)

\* ------------------------------------------------------------------ C19

\* Where the walker started by DepthFirstSearch stands: it sends each file on
\* an unbuffered channel and closes the channel after the last one, so while
\* files are left it stands at a send that completes only when the render
\* loop receives. Without recursion executeTemplates fills and closes a
\* buffered channel itself and there is no walker.
WalkerPc ==
    IF ~req.Recursive THEN "none"
    ELSE IF trees # <<>> THEN "send"
    ELSE "closed"

====
